---- MODULE Spec2Model ----
(***************************************************************************)
(* Model of the crisis-update canister (src/backend/src/lib.rs): a stable  *)
(* B-tree map from u64 ids to Candid-encoded CrisisUpdate records, a       *)
(* stable id counter cell, and the update/query entry points on top.       *)
(***************************************************************************)
EXTENDS Integers, Naturals, Sequences, FiniteSets, TLC

VARIABLES
    CRISIS_ID_COUNTER,  \* value cached in the heap by the IdCell
    memory0,            \* stable memory region 0: the persisted counter
    CRISIS_STORAGE,     \* stable memory region 1: id -> encoded record
    now,                \* the platform clock read by time()
    result,             \* the response of the call being answered, Idle between calls
    issued,             \* history: ids returned by successful creates, in call order
    created,            \* history: id of a record created and not deleted since ->
                        \*   the id, author and created_at its create fixed
    deleted             \* history: ids whose delete has succeeded

vars == <<CRISIS_ID_COUNTER, memory0, CRISIS_STORAGE, now, result, issued, created, deleted>>

state == <<CRISIS_ID_COUNTER, memory0, CRISIS_STORAGE>>

(* ------------------------------ bounds -------------------------------- *)

MaxId == 2      \* creates are cut off once the counter reaches MaxId
MaxTime == 1    \* the clock is cut off at MaxTime

(* ------------------------------ inputs -------------------------------- *)

Principals == {"A", "B"}

Ids == 0..MaxId

RECURSIVE Dbl(_, _)
Dbl(s, n) == IF n = 0 THEN s ELSE Dbl(s \o s, n - 1)

\* 1280 characters: passes validation, does not fit in MAX_SIZE bytes
LongText == Dbl("Heavy rain", 7)

Payload(t, d, l) == [title |-> t, description |-> d, location |-> l]

ValidPayloads ==
    { Payload("Flood", "Heavy flooding reported downtown", "Lagos"),
      Payload("F", "Flood here", "NY") }

InvalidPayloads ==
    { Payload("", "Heavy flooding reported downtown", "Lagos"),
      Payload("Flood", "Flooding!", "Lagos"),
      Payload("Flood", "Heavy flooding reported downtown", "L") }

OversizePayloads == { Payload("Flood", LongText, "Lagos") }

Payloads == ValidPayloads \cup InvalidPayloads \cup OversizePayloads

\* arguments of the searches
Locations == {"Lagos", "NY", "Nairobi"}

Needles == {"Flood", "here", "F", "flooding reported"}

Times == 0..MaxTime

(* ------------------------- Option and Result --------------------------- *)

None == <<>>
Some(v) == <<v>>

\* the response of a call: kind is "Ok", "Err" (a typed error, named by err)
\* or "Trap" (abnormal termination); value holds the returned records
Response(op, kind, err, value) ==
    [op |-> op, kind |-> kind, err |-> err, value |-> value]

\* no call is in progress: the canister handles one call at a time, the
\* next one starts when the response of the previous one has been delivered
Idle == Response("idle", "Ok", "", <<>>)

(* ------------------------ CrisisUpdate encoding ------------------------ *)

MAX_SIZE == 1024

\* bytes of a Candid message before the field values: magic, type table
\* (opt nat64; record of 7 fields keyed by field-name hash), argument types
CandidHeader == 51

\* length of the unsigned LEB128 encoding of n
RECURSIVE Leb128Len(_)
Leb128Len(n) == IF n < 128 THEN 1 ELSE 1 + Leb128Len(n \div 128)

TextSize(s) == Leb128Len(Len(s)) + Len(s)

OptSize(o) == IF o = None THEN 1 ELSE 9

\* Encode!(self): the fields in ascending order of their Candid field hash
\* (id, title, description, created_at, author, timestamp, location)
to_bytes(u) ==
    <<u.id, u.title, u.description, u.created_at, u.author, u.timestamp, u.location>>

from_bytes_swapped(b) ==
    [id |-> b[1], title |-> b[3], author |-> b[5], description |-> b[2],
     location |-> b[7], timestamp |-> b[6], created_at |-> b[4]]

from_bytes(b) ==
    [id |-> b[1], title |-> b[2], author |-> b[5], description |-> b[3],
     location |-> b[7], timestamp |-> b[6], created_at |-> b[4]]

\* number of bytes of to_bytes(u)
EncodedLen(u) ==
    CandidHeader + 8 + TextSize(u.title) + TextSize(u.description) + 8
        + TextSize(u.author) + OptSize(u.timestamp) + TextSize(u.location)

\* the fields of a record that its create fixes
Fixed(u) == [id |-> u.id, author |-> u.author, created_at |-> u.created_at]

(* ------------------------------ helpers -------------------------------- *)

\* IdCell::init: an empty region is initialised with the default, an
\* initialised region is loaded
IdCell_init_fresh(mem, default) == [value |-> default, memory |-> <<default>>]

IdCell_init(mem, default) ==
    IF mem = <<>> THEN [value |-> default, memory |-> <<default>>]
    ELSE [value |-> mem[1], memory |-> mem]

\* StableBTreeMap::init: the map is whatever the region holds
StableBTreeMap_init(mem) == mem

_check_input_no_location(payload) ==
    IF Len(payload.title) < 1 \/ Len(payload.description) < 10
    THEN "InputValidationFailed" ELSE ""

_check_input_lax(payload) ==
    IF Len(payload.title) < 1 \/ Len(payload.description) < 9 \/ Len(payload.location) < 2
    THEN "InputValidationFailed" ELSE ""

_check_input(payload) ==
    IF Len(payload.title) < 1 \/ Len(payload.description) < 10 \/ Len(payload.location) < 2
    THEN "InputValidationFailed" ELSE ""

_check_if_author_anyone(crisis_update, c) == ""

_check_if_author(crisis_update, c) ==
    IF crisis_update.author # c THEN "AuthenticationFailed" ELSE ""

_get_crisis_update(id) ==
    IF id \in DOMAIN CRISIS_STORAGE THEN Some(from_bytes(CRISIS_STORAGE[id])) ELSE None

\* StableBTreeMap::insert: panics when the encoded value exceeds MAX_SIZE
InsertFits(update) == EncodedLen(update) <= MAX_SIZE

do_insert_crisis_update(storage, update) ==
    [k \in DOMAIN storage \cup {update.id} |->
        IF k = update.id THEN to_bytes(update) ELSE storage[k]]

\* StableBTreeMap::remove: the map without the key, and the value it held
Remove_keeps(storage, id) ==
    [storage |-> storage,
     removed |-> IF id \in DOMAIN storage THEN Some(from_bytes(storage[id])) ELSE None]

Remove(storage, id) ==
    [storage |-> [k \in DOMAIN storage \ {id} |-> storage[k]],
     removed |-> IF id \in DOMAIN storage THEN Some(from_bytes(storage[id])) ELSE None]

\* StableBTreeMap::iter: the decoded values in ascending order of their keys
RECURSIVE iter_keys(_, _)
iter_keys(storage, keys) ==
    IF keys = {} THEN <<>>
    ELSE LET k == CHOOSE x \in keys : \A y \in keys : x <= y
         IN <<from_bytes(storage[k])>> \o iter_keys(storage, keys \ {k})

iter(storage) == iter_keys(storage, DOMAIN storage)

\* StableBTreeMap::last_key_value
last_key_value(storage) ==
    IF DOMAIN storage = {} THEN None
    ELSE Some(from_bytes(storage[CHOOSE x \in DOMAIN storage :
                                     \A y \in DOMAIN storage : y <= x]))

\* str::contains
contains(s, pattern) ==
    \/ pattern = ""
    \/ \E i \in 1..(Len(s) - Len(pattern) + 1) :
          SubSeq(s, i, i + Len(pattern) - 1) = pattern

\* what a call leaves behind: the three state cells and the response
Outcome(counter, mem, storage, kind, err, value) ==
    [counter |-> counter, memory |-> mem, storage |-> storage,
     kind |-> kind, err |-> err, value |-> value]

Unchanged(kind, err, value) ==
    Outcome(CRISIS_ID_COUNTER, memory0, CRISIS_STORAGE, kind, err, value)

\* the platform commits the state changes of a call that returns and
\* discards those of a call that traps
Commit_partial(out) ==
    /\ CRISIS_ID_COUNTER' = out.counter
    /\ memory0' = out.memory
    /\ CRISIS_STORAGE' = out.storage

Commit(out) ==
    IF out.kind = "Trap"
    THEN UNCHANGED state
    ELSE /\ CRISIS_ID_COUNTER' = out.counter
         /\ memory0' = out.memory
         /\ CRISIS_STORAGE' = out.storage

(* ---------------------------- operations ------------------------------- *)

Init ==
    /\ CRISIS_ID_COUNTER = IdCell_init(<<>>, 0).value
    /\ memory0 = IdCell_init(<<>>, 0).memory
    /\ CRISIS_STORAGE = StableBTreeMap_init(<<>>)
    /\ now = 0
    /\ result = Idle
    /\ issued = <<>>
    /\ created = <<>>
    /\ deleted = {}

get_crisis_update_result(id) ==
    IF _get_crisis_update(id) # None
    THEN Unchanged("Ok", "", _get_crisis_update(id))
    ELSE Unchanged("Err", "NotFound", <<>>)

get_crisis_update(id) ==
    /\ result = Idle
    /\ \E out \in {get_crisis_update_result(id)} :
       /\ Commit(out)
       /\ result' = Response("get", out.kind, out.err, out.value)
       /\ UNCHANGED <<now, issued, created, deleted>>

\* the counter read and set of add_crisis_update: the id is the value the
\* cell held, the cell and its stable region then hold that value plus one
next_id_stuck(current_value) ==
    [id |-> current_value, counter |-> current_value,
     memory |-> <<current_value>>]

next_id_unpersisted(current_value) ==
    [id |-> current_value, counter |-> current_value + 1,
     memory |-> <<current_value>>]

next_id_after_last(current_value) ==
    LET id == IF DOMAIN CRISIS_STORAGE = {} THEN 0
              ELSE 1 + CHOOSE k \in DOMAIN CRISIS_STORAGE :
                           \A j \in DOMAIN CRISIS_STORAGE : j <= k
    IN [id |-> id, counter |-> id + 1, memory |-> <<id + 1>>]

next_id_incremented(current_value) ==
    [id |-> current_value + 1, counter |-> current_value + 1,
     memory |-> <<current_value + 1>>]

next_id(current_value) ==
    [id |-> current_value, counter |-> current_value + 1,
     memory |-> <<current_value + 1>>]

add_crisis_update_result_allocate_first(c, update) ==
    LET alloc == next_id(CRISIS_ID_COUNTER)
        crisis_update ==
            [id |-> alloc.id, title |-> update.title, author |-> c,
             description |-> update.description, location |-> update.location,
             timestamp |-> None, created_at |-> now]
    IN IF _check_input(update) # ""
       THEN Outcome(alloc.counter, alloc.memory, CRISIS_STORAGE,
                    "Err", _check_input(update), <<>>)
       ELSE IF ~InsertFits(crisis_update)
            THEN Outcome(alloc.counter, alloc.memory, CRISIS_STORAGE, "Trap", "", <<>>)
            ELSE Outcome(alloc.counter, alloc.memory,
                         do_insert_crisis_update(CRISIS_STORAGE, crisis_update),
                         "Ok", "", <<crisis_update>>)

add_crisis_update_result(c, update) ==
    IF _check_input(update) # ""
    THEN Unchanged("Err", _check_input(update), <<>>)
    ELSE LET alloc == next_id(CRISIS_ID_COUNTER)
             crisis_update ==
                 [id |-> alloc.id, title |-> update.title, author |-> c,
                  description |-> update.description, location |-> update.location,
                  timestamp |-> None, created_at |-> now]
         IN IF ~InsertFits(crisis_update)
            THEN Outcome(alloc.counter, alloc.memory, CRISIS_STORAGE, "Trap", "", <<>>)
            ELSE Outcome(alloc.counter, alloc.memory,
                         do_insert_crisis_update(CRISIS_STORAGE, crisis_update),
                         "Ok", "", <<crisis_update>>)

add_crisis_update(c, update) ==
    /\ result = Idle
    /\ \E out \in {add_crisis_update_result(c, update)} :
       /\ _check_input(update) = "" => CRISIS_ID_COUNTER < MaxId
       /\ Commit(out)
       /\ result' = Response("create", out.kind, out.err, out.value)
       /\ issued' = IF out.kind = "Ok" THEN Append(issued, out.value[1].id) ELSE issued
       /\ created' = IF out.kind = "Ok"
                     THEN [k \in DOMAIN created \cup {out.value[1].id} |->
                              IF k = out.value[1].id THEN Fixed(out.value[1]) ELSE created[k]]
                     ELSE created
       /\ UNCHANGED <<now, deleted>>

\* the field assignments of update_crisis_update
apply_payload_unstamped(update, payload, t) ==
    [update EXCEPT !.title = payload.title,
                   !.description = payload.description,
                   !.location = payload.location]

apply_payload_restamped(update, payload, t) ==
    [update EXCEPT !.title = payload.title,
                   !.description = payload.description,
                   !.location = payload.location,
                   !.timestamp = Some(t),
                   !.created_at = t]

apply_payload(update, payload, t) ==
    [update EXCEPT !.title = payload.title,
                   !.description = payload.description,
                   !.location = payload.location,
                   !.timestamp = Some(t)]

update_crisis_update_result_validate_first(c, id, payload) ==
    IF _get_crisis_update(id) = None
    THEN Unchanged("Err", "NotFound", <<>>)
    ELSE LET update == _get_crisis_update(id)[1] IN
         IF _check_input(payload) # ""
         THEN Unchanged("Err", _check_input(payload), <<>>)
         ELSE IF _check_if_author(update, c) # ""
         THEN Unchanged("Err", _check_if_author(update, c), <<>>)
         ELSE IF ~InsertFits(apply_payload(update, payload, now))
         THEN Unchanged("Trap", "", <<>>)
         ELSE Outcome(CRISIS_ID_COUNTER, memory0,
                      do_insert_crisis_update(CRISIS_STORAGE, apply_payload(update, payload, now)),
                      "Ok", "", <<apply_payload(update, payload, now)>>)

update_crisis_update_result(c, id, payload) ==
    IF _get_crisis_update(id) = None
    THEN Unchanged("Err", "NotFound", <<>>)
    ELSE LET update == _get_crisis_update(id)[1] IN
         IF _check_if_author(update, c) # ""
         THEN Unchanged("Err", _check_if_author(update, c), <<>>)
         ELSE IF _check_input(payload) # ""
         THEN Unchanged("Err", _check_input(payload), <<>>)
         ELSE IF ~InsertFits(apply_payload(update, payload, now))
         THEN Unchanged("Trap", "", <<>>)
         ELSE Outcome(CRISIS_ID_COUNTER, memory0,
                      do_insert_crisis_update(CRISIS_STORAGE, apply_payload(update, payload, now)),
                      "Ok", "", <<apply_payload(update, payload, now)>>)

update_crisis_update(c, id, payload) ==
    /\ result = Idle
    /\ \E out \in {update_crisis_update_result(c, id, payload)} :
       /\ Commit(out)
       /\ result' = Response("update", out.kind, out.err, out.value)
       /\ UNCHANGED <<now, issued, created, deleted>>

delete_crisis_update_result(c, id) ==
    IF _get_crisis_update(id) = None
    THEN Unchanged("Trap", "", <<>>)
    ELSE LET crisis_update == _get_crisis_update(id)[1] IN
         IF _check_if_author(crisis_update, c) # ""
         THEN Unchanged("Err", _check_if_author(crisis_update, c), <<>>)
         ELSE IF Remove(CRISIS_STORAGE, id).removed # None
         THEN Outcome(CRISIS_ID_COUNTER, memory0, Remove(CRISIS_STORAGE, id).storage,
                      "Ok", "", Remove(CRISIS_STORAGE, id).removed)
         ELSE Unchanged("Err", "NotFound", <<>>)

delete_crisis_update(c, id) ==
    /\ result = Idle
    /\ \E out \in {delete_crisis_update_result(c, id)} :
       /\ Commit(out)
       /\ result' = Response("delete", out.kind, out.err, out.value)
       /\ deleted' = IF out.kind = "Ok" THEN deleted \cup {id} ELSE deleted
       /\ created' = IF out.kind = "Ok"
                     THEN [k \in DOMAIN created \ {id} |-> created[k]]
                     ELSE created
       /\ UNCHANGED <<now, issued>>

list_all_crisis_updates_result ==
    IF DOMAIN CRISIS_STORAGE = {}
    THEN Unchanged("Err", "NotFound", <<>>)
    ELSE Unchanged("Ok", "", iter(CRISIS_STORAGE))

list_all_crisis_updates ==
    /\ result = Idle
    /\ \E out \in {list_all_crisis_updates_result} :
       /\ Commit(out)
       /\ result' = Response("list_all", out.kind, out.err, out.value)
       /\ UNCHANGED <<now, issued, created, deleted>>

get_latest_crisis_update_result_pop ==
    IF DOMAIN CRISIS_STORAGE = {}
    THEN Unchanged("Err", "NotFound", <<>>)
    ELSE Outcome(CRISIS_ID_COUNTER, memory0,
                 Remove(CRISIS_STORAGE, last_key_value(CRISIS_STORAGE)[1].id).storage,
                 "Ok", "", last_key_value(CRISIS_STORAGE))

get_latest_crisis_update_result_first ==
    IF DOMAIN CRISIS_STORAGE = {}
    THEN Unchanged("Err", "NotFound", <<>>)
    ELSE Unchanged("Ok", "", <<iter(CRISIS_STORAGE)[1]>>)

get_latest_crisis_update_result ==
    IF last_key_value(CRISIS_STORAGE) = None
    THEN Unchanged("Err", "NotFound", <<>>)
    ELSE Unchanged("Ok", "", last_key_value(CRISIS_STORAGE))

get_latest_crisis_update ==
    /\ result = Idle
    /\ \E out \in {get_latest_crisis_update_result} :
       /\ Commit(out)
       /\ result' = Response("latest", out.kind, out.err, out.value)
       /\ UNCHANGED <<now, issued, created, deleted>>

search_crisis_updates_by_location_result_silent(location) ==
    IF DOMAIN CRISIS_STORAGE = {}
    THEN Unchanged("Err", "NotFound", <<>>)
    ELSE Unchanged("Ok", "",
                   SelectSeq(iter(CRISIS_STORAGE), LAMBDA update : update.location = location))

search_crisis_updates_by_location_result(location) ==
    IF DOMAIN CRISIS_STORAGE = {}
    THEN Unchanged("Err", "NotFound", <<>>)
    ELSE LET filtered_crisis_updates ==
                 SelectSeq(iter(CRISIS_STORAGE), LAMBDA update : update.location = location)
         IN IF Len(filtered_crisis_updates) = 0
            THEN Unchanged("Err", "NotFound", <<>>)
            ELSE Unchanged("Ok", "", filtered_crisis_updates)

search_crisis_updates_by_location(location) ==
    /\ result = Idle
    /\ \E out \in {search_crisis_updates_by_location_result(location)} :
       /\ Commit(out)
       /\ result' = Response("search_by_location", out.kind, out.err, out.value)
       /\ UNCHANGED <<now, issued, created, deleted>>

\* the timestamp queries compare the optional timestamp with a u64 bound:
\* for an unset timestamp the source does not fix the outcome, and unset is
\* what the comparison is taken to yield
get_crisis_updates_in_range_result(start_timestamp, end_timestamp, unset) ==
    Unchanged("Ok", "",
              SelectSeq(iter(CRISIS_STORAGE),
                        LAMBDA update :
                            IF update.timestamp = None THEN unset
                            ELSE update.timestamp[1] >= start_timestamp
                                 /\ update.timestamp[1] <= end_timestamp))

get_crisis_updates_in_range(start_timestamp, end_timestamp, unset) ==
    /\ result = Idle
    /\ \E out \in {get_crisis_updates_in_range_result(start_timestamp, end_timestamp, unset)} :
       /\ Commit(out)
       /\ result' = Response("in_range", out.kind, out.err, out.value)
       /\ UNCHANGED <<now, issued, created, deleted>>

get_crisis_updates_before_result(end_timestamp, unset) ==
    Unchanged("Ok", "",
              SelectSeq(iter(CRISIS_STORAGE),
                        LAMBDA update :
                            IF update.timestamp = None THEN unset
                            ELSE update.timestamp[1] < end_timestamp))

get_crisis_updates_before(end_timestamp, unset) ==
    /\ result = Idle
    /\ \E out \in {get_crisis_updates_before_result(end_timestamp, unset)} :
       /\ Commit(out)
       /\ result' = Response("before", out.kind, out.err, out.value)
       /\ UNCHANGED <<now, issued, created, deleted>>

get_crisis_updates_after_result(start_timestamp, unset) ==
    Unchanged("Ok", "",
              SelectSeq(iter(CRISIS_STORAGE),
                        LAMBDA update :
                            IF update.timestamp = None THEN unset
                            ELSE update.timestamp[1] > start_timestamp))

get_crisis_updates_after(start_timestamp, unset) ==
    /\ result = Idle
    /\ \E out \in {get_crisis_updates_after_result(start_timestamp, unset)} :
       /\ Commit(out)
       /\ result' = Response("after", out.kind, out.err, out.value)
       /\ UNCHANGED <<now, issued, created, deleted>>

get_crisis_updates_by_id_range_result(start_id, end_id) ==
    Unchanged("Ok", "",
              SelectSeq(iter(CRISIS_STORAGE),
                        LAMBDA update : update.id >= start_id /\ update.id <= end_id))

get_crisis_updates_by_id_range(start_id, end_id) ==
    /\ result = Idle
    /\ \E out \in {get_crisis_updates_by_id_range_result(start_id, end_id)} :
       /\ Commit(out)
       /\ result' = Response("by_id_range", out.kind, out.err, out.value)
       /\ UNCHANGED <<now, issued, created, deleted>>

get_crisis_updates_by_title_result_not_found(title) ==
    IF DOMAIN CRISIS_STORAGE = {}
    THEN Unchanged("Err", "NotFound", <<>>)
    ELSE Unchanged("Ok", "",
                   SelectSeq(iter(CRISIS_STORAGE),
                             LAMBDA update : contains(update.title, title)))

get_crisis_updates_by_title_result(title) ==
    Unchanged("Ok", "",
              SelectSeq(iter(CRISIS_STORAGE), LAMBDA update : contains(update.title, title)))

get_crisis_updates_by_title(title) ==
    /\ result = Idle
    /\ \E out \in {get_crisis_updates_by_title_result(title)} :
       /\ Commit(out)
       /\ result' = Response("by_title", out.kind, out.err, out.value)
       /\ UNCHANGED <<now, issued, created, deleted>>

get_crisis_updates_by_description_result(description) ==
    Unchanged("Ok", "",
              SelectSeq(iter(CRISIS_STORAGE),
                        LAMBDA update : contains(update.description, description)))

get_crisis_updates_by_description(description) ==
    /\ result = Idle
    /\ \E out \in {get_crisis_updates_by_description_result(description)} :
       /\ Commit(out)
       /\ result' = Response("by_description", out.kind, out.err, out.value)
       /\ UNCHANGED <<now, issued, created, deleted>>

\* a process restart: the heap is lost, the thread-locals are initialised
\* again over the same stable memory
Restart ==
    /\ result = Idle
    /\ CRISIS_ID_COUNTER' = IdCell_init(memory0, 0).value
    /\ memory0' = IdCell_init(memory0, 0).memory
    /\ CRISIS_STORAGE' = StableBTreeMap_init(CRISIS_STORAGE)
    /\ result' = Response("restart", "Ok", "", <<>>)
    /\ UNCHANGED <<now, issued, created, deleted>>

\* the platform clock advances between calls
Tick ==
    /\ result = Idle
    /\ now < MaxTime
    /\ now' = now + 1
    /\ UNCHANGED <<state, result, issued, created, deleted>>

\* the response is delivered to the caller
Return ==
    /\ result # Idle
    /\ result' = Idle
    /\ UNCHANGED <<state, now, issued, created, deleted>>

Next ==
    \/ \E id \in Ids : get_crisis_update(id)
    \/ \E c \in Principals, p \in Payloads : add_crisis_update(c, p)
    \/ \E c \in Principals, id \in Ids, p \in Payloads : update_crisis_update(c, id, p)
    \/ \E c \in Principals, id \in Ids : delete_crisis_update(c, id)
    \/ list_all_crisis_updates
    \/ get_latest_crisis_update
    \/ \E location \in Locations : search_crisis_updates_by_location(location)
    \/ \E lo \in Times, hi \in Times, unset \in BOOLEAN :
          get_crisis_updates_in_range(lo, hi, unset)
    \/ \E ts \in Times, unset \in BOOLEAN : get_crisis_updates_before(ts, unset)
    \/ \E ts \in Times, unset \in BOOLEAN : get_crisis_updates_after(ts, unset)
    \/ \E lo \in Ids, hi \in Ids : get_crisis_updates_by_id_range(lo, hi)
    \/ \E title \in Needles : get_crisis_updates_by_title(title)
    \/ \E description \in Needles : get_crisis_updates_by_description(description)
    \/ Restart
    \/ Tick
    \/ Return

Spec == Init /\ [][Next]_vars

(* ------------------------------ properties ----------------------------- *)

Stored == { from_bytes(CRISIS_STORAGE[k]) : k \in DOMAIN CRISIS_STORAGE }

Occurrences(id) == Cardinality({ i \in 1..Len(issued) : issued[i] = id })

\* C1: the ids returned by successful creates are strictly increasing in call
\* order, so none is returned twice, whatever updates, deletes, reads and
\* restarts are interleaved; the counter, also the one reloaded by a restart,
\* is above every id issued so far, so the next create returns a greater id.
C1_IdsStrictlyIncreasing ==
    /\ \A i, j \in 1..Len(issued) : i < j => issued[i] < issued[j]
    /\ \A i \in 1..Len(issued) : issued[i] < CRISIS_ID_COUNTER

\* a restart has just reloaded the counter after two ids were issued
C1_Witness ==
    /\ result.op = "restart"
    /\ Len(issued) >= 2
    /\ issued[1] # issued[2]

\* C2: once delete(id) has succeeded the id stays absent from the store,
\* read(id) answers NotFound, and no later create returns the id again: it
\* occurs exactly once among the ids ever issued.
C2_DeletionIsTerminal ==
    \A id \in deleted :
        /\ id \notin DOMAIN CRISIS_STORAGE
        /\ get_crisis_update_result(id).kind = "Err"
        /\ get_crisis_update_result(id).err = "NotFound"
        /\ Occurrences(id) = 1
        /\ \A u \in Stored : u.id # id

\* every earlier id was deleted, the last of them while it was the highest
\* id in the store, and a create has just returned a fresh id
C2_Witness ==
    /\ result.op = "create"
    /\ result.kind = "Ok"
    /\ deleted # {}
    /\ deleted = 0..(result.value[1].id - 1)
    /\ DOMAIN CRISIS_STORAGE = {result.value[1].id}

\* C3: the counter starts at 0 and the n-th successful create returns n-1,
\* the counter's value before the call, leaving the counter at n.
C3_CounterPreIncrement ==
    /\ \A n \in 1..Len(issued) : issued[n] = n - 1
    /\ CRISIS_ID_COUNTER = Len(issued)
    /\ memory0 = <<Len(issued)>>

\* the first create has returned id 0 and left the counter at 1
C3_Witness ==
    /\ result.op = "create"
    /\ result.kind = "Ok"
    /\ result.value[1].id = 0
    /\ CRISIS_ID_COUNTER = 1

\* C4: a successful create(payload) by caller c at time t returns a record
\* with the payload's title, description and location, author c,
\* created_at t and timestamp None, and a read of its id right after the
\* create returns that record.
C4_CreateReadRoundTrip ==
    [][(result'.op = "create" /\ result'.kind = "Ok") =>
       \A c \in Principals, p \in Payloads :
          add_crisis_update(c, p) =>
              /\ Len(result'.value) = 1
              /\ result'.value[1].title = p.title
              /\ result'.value[1].description = p.description
              /\ result'.value[1].location = p.location
              /\ result'.value[1].author = c
              /\ result'.value[1].created_at = now
              /\ result'.value[1].timestamp = None
              /\ \A id \in Ids : id = result'.value[1].id =>
                    /\ get_crisis_update_result(id)'.kind = "Ok"
                    /\ get_crisis_update_result(id)'.value = result'.value]_vars

\* a create at a time after 0 has just succeeded and its record is stored
C4_Witness ==
    /\ result.op = "create"
    /\ result.kind = "Ok"
    /\ result.value[1].created_at > 0
    /\ result.value[1].id \in DOMAIN CRISIS_STORAGE

\* C5: whenever a call can start, update of an existing id by a caller who is
\* not the record's author returns AuthenticationFailed, for every payload,
\* and changes neither the store nor the id counter.
C5_UpdateByNonAuthor ==
    result = Idle =>
    \A id \in DOMAIN CRISIS_STORAGE, c \in Principals :
        from_bytes(CRISIS_STORAGE[id]).author # c =>
            \A p \in Payloads :
                \A out \in {update_crisis_update_result(c, id, p)} :
                    /\ out.kind = "Err"
                    /\ out.err = "AuthenticationFailed"
                    /\ out.storage = CRISIS_STORAGE
                    /\ out.counter = CRISIS_ID_COUNTER
                    /\ out.memory = memory0

\* an update of an already updated record has just been refused for its caller
C5_Witness ==
    /\ result.op = "update"
    /\ result.err = "AuthenticationFailed"
    /\ \E u \in Stored : u.timestamp # None

\* C6: whenever a call can start, update of an existing id by its author with
\* a payload that breaks a length rule returns InputValidationFailed and
\* changes neither the store nor the id counter.
C6_UpdateInvalidPayload ==
    result = Idle =>
    \A id \in DOMAIN CRISIS_STORAGE, c \in Principals, p \in Payloads :
        (/\ from_bytes(CRISIS_STORAGE[id]).author = c
         /\ (Len(p.title) < 1 \/ Len(p.description) < 10 \/ Len(p.location) < 2)) =>
            \A out \in {update_crisis_update_result(c, id, p)} :
                /\ out.kind = "Err"
                /\ out.err = "InputValidationFailed"
                /\ out.storage = CRISIS_STORAGE
                /\ out.counter = CRISIS_ID_COUNTER
                /\ out.memory = memory0

\* an update has just been refused for its payload while every record is
\* still as created
C6_Witness ==
    /\ result.op = "update"
    /\ result.err = "InputValidationFailed"
    /\ Stored # {}
    /\ \A u \in Stored : u.timestamp = None

\* C7: delete of an existing id by its author removes the record, returns the
\* record that was stored and leaves the id unreadable; by another caller it
\* returns AuthenticationFailed and leaves the store unchanged.
C7_DeleteExisting ==
    [][result'.op = "delete" =>
       \A id \in DOMAIN CRISIS_STORAGE, c \in Principals :
          delete_crisis_update(c, id) =>
              IF from_bytes(CRISIS_STORAGE[id]).author = c
              THEN /\ result'.kind = "Ok"
                   /\ result'.value = <<from_bytes(CRISIS_STORAGE[id])>>
                   /\ id \notin DOMAIN CRISIS_STORAGE'
                   /\ get_crisis_update_result(id)'.kind = "Err"
                   /\ get_crisis_update_result(id)'.err = "NotFound"
                   /\ \A k \in DOMAIN CRISIS_STORAGE \ {id} :
                         k \in DOMAIN CRISIS_STORAGE' /\ CRISIS_STORAGE'[k] = CRISIS_STORAGE[k]
              ELSE /\ result'.kind = "Err"
                   /\ result'.err = "AuthenticationFailed"
                   /\ UNCHANGED state]_vars

\* a delete has just removed an updated record and another record remains
C7_Witness ==
    /\ result.op = "delete"
    /\ result.kind = "Ok"
    /\ result.value[1].timestamp # None
    /\ result.value[1].id \notin DOMAIN CRISIS_STORAGE
    /\ Stored # {}

\* C8: delete of an id that is not in the store returns the typed error
\* NotFound to every caller and changes neither the store nor the id counter.
C8_DeleteMissingIsNotFound ==
    [][result'.op = "delete" =>
       \A id \in Ids \ DOMAIN CRISIS_STORAGE, c \in Principals :
          delete_crisis_update(c, id) =>
              /\ result'.kind = "Err"
              /\ result'.err = "NotFound"
              /\ UNCHANGED state]_vars

\* C9: whenever a call can start, update checks existence, then
\* authorization, then validation: a missing id gives NotFound whatever the
\* caller and payload, a non-author caller with an invalid payload gives
\* AuthenticationFailed, and InputValidationFailed is returned only to the
\* author.
C9_UpdateGateOrder ==
    result = Idle =>
    \A id \in Ids, c \in Principals, p \in Payloads :
        \A out \in {update_crisis_update_result(c, id, p)} :
            /\ id \notin DOMAIN CRISIS_STORAGE =>
                  out.kind = "Err" /\ out.err = "NotFound"
            /\ (/\ id \in DOMAIN CRISIS_STORAGE
                /\ from_bytes(CRISIS_STORAGE[id]).author # c
                /\ (Len(p.title) < 1 \/ Len(p.description) < 10 \/ Len(p.location) < 2)) =>
                  out.kind = "Err" /\ out.err = "AuthenticationFailed"
            /\ out.err = "InputValidationFailed" =>
                  /\ id \in DOMAIN CRISIS_STORAGE
                  /\ from_bytes(CRISIS_STORAGE[id]).author = c

\* an update of a missing id has just been answered NotFound while records
\* of both callers are stored
C9_Witness ==
    /\ result.op = "update"
    /\ result.err = "NotFound"
    /\ \A c \in Principals : \E u \in Stored : u.author = c

\* C10: every stored record has the id, author and created_at that the
\* create which produced it fixed, whatever updates were applied since.
C10_WriteOnce ==
    \A k \in DOMAIN CRISIS_STORAGE :
        /\ k \in DOMAIN created
        /\ created[k].id = k
        /\ Fixed(from_bytes(CRISIS_STORAGE[k])) = created[k]

\* a record has been updated at a time later than its creation
C10_Witness ==
    \E u \in Stored : u.timestamp # None /\ u.timestamp # Some(u.created_at)

\* C11: a record enters the store with timestamp None; a successful update
\* at time t leaves its record with timestamp Some(t); and no other step,
\* a failed update included, changes the timestamp of a stored record.
C11_TimestampIsLastUpdate ==
    [][ /\ \A k \in DOMAIN CRISIS_STORAGE' \ DOMAIN CRISIS_STORAGE :
              from_bytes(CRISIS_STORAGE'[k]).timestamp = None
        /\ \A k \in DOMAIN CRISIS_STORAGE' \cap DOMAIN CRISIS_STORAGE :
              from_bytes(CRISIS_STORAGE'[k]).timestamp # from_bytes(CRISIS_STORAGE[k]).timestamp
              => /\ result'.op = "update"
                 /\ result'.kind = "Ok"
                 /\ result'.value[1].id = k
        /\ (result'.op = "update" /\ result'.kind = "Ok")
              => /\ result'.value[1].timestamp = Some(now)
                 /\ \A k \in Ids :
                      k = result'.value[1].id
                      => /\ k \in DOMAIN CRISIS_STORAGE'
                         /\ from_bytes(CRISIS_STORAGE'[k]).timestamp = Some(now)
      ]_vars

\* an update succeeded later than the creation of its record, while another
\* record that was never updated is still unstamped
C11_Witness ==
    /\ result.op = "update"
    /\ result.kind = "Ok"
    /\ result.value[1].timestamp = Some(now)
    /\ result.value[1].created_at < now
    /\ \E u \in Stored : u.timestamp = None

\* C12: a create whose payload breaks a length minimum answers
\* InputValidationFailed, and a create answered so leaves the store, the
\* counter and its stable cell as they were, so that every create that could
\* follow has the outcome, the id included, it would have had without it.
C12_RejectedCreateHasNoEffect ==
    [][ result'.op = "create"
        => /\ \A c \in Principals, p \in Payloads :
                 ( /\ \/ Len(p.title) < 1
                      \/ Len(p.description) < 10
                      \/ Len(p.location) < 2
                   /\ add_crisis_update(c, p) )
                 => (result'.kind = "Err" /\ result'.err = "InputValidationFailed")
           /\ result'.err = "InputValidationFailed"
                 => /\ UNCHANGED state
                    /\ \A c \in Principals, q \in ValidPayloads :
                          add_crisis_update_result(c, q)' = add_crisis_update_result(c, q)
      ]_vars

\* a create was rejected after an id had been issued and a record stored
C12_Witness ==
    /\ result.op = "create"
    /\ result.err = "InputValidationFailed"
    /\ CRISIS_ID_COUNTER >= 1
    /\ DOMAIN CRISIS_STORAGE # {}

\* C13: a restart leaves the counter and the store as they were, and every
\* read by id and every scan answers after it exactly what it answered
\* before, the records in the same ascending order of id.
C13_RestartIsDurable ==
    [][ result'.op = "restart"
        => /\ CRISIS_ID_COUNTER' = CRISIS_ID_COUNTER
           /\ CRISIS_STORAGE' = CRISIS_STORAGE
           /\ \A id \in Ids :
                 get_crisis_update_result(id)'.value = get_crisis_update_result(id).value
           /\ list_all_crisis_updates_result' = list_all_crisis_updates_result
           /\ iter(CRISIS_STORAGE)' = iter(CRISIS_STORAGE)
      ]_vars

\* a restart happened after a delete had succeeded and with an updated
\* record in the store
C13_Witness ==
    /\ result.op = "restart"
    /\ deleted # {}
    /\ \E u \in Stored : u.timestamp # None

\* C14: search_by_location(loc) answers with exactly the stored records
\* whose location is loc, each once and in ascending order of id, and with
\* NotFound when there is none, the store being empty or not.
C14_SearchByLocation ==
    result = Idle =>
    \A location \in Locations :
    \A out \in {search_crisis_updates_by_location_result(location)} :
        LET matching == { k \in DOMAIN CRISIS_STORAGE :
                            from_bytes(CRISIS_STORAGE[k]).location = location }
        IN /\ out.counter = CRISIS_ID_COUNTER /\ out.storage = CRISIS_STORAGE
           /\ matching = {} => (out.kind = "Err" /\ out.err = "NotFound")
           /\ matching # {}
                => /\ out.kind = "Ok"
                   /\ Len(out.value) = Cardinality(matching)
                   /\ \A i \in 1..Len(out.value) :
                         /\ out.value[i].id \in matching
                         /\ out.value[i] = from_bytes(CRISIS_STORAGE[out.value[i].id])
                   /\ \A i \in 1..Len(out.value), j \in 1..Len(out.value) :
                         i < j => out.value[i].id < out.value[j].id

\* a search by location returned some but not all of the stored records
C14_Witness ==
    /\ result.op = "search_by_location"
    /\ result.kind = "Ok"
    /\ Len(result.value) >= 1
    /\ Len(result.value) < Cardinality(DOMAIN CRISIS_STORAGE)

\* C15: latest() answers NotFound exactly when the store is empty, and
\* otherwise with the stored record whose id is the highest of the ids now
\* in the store.
C15_LatestIsHighestId ==
    result = Idle =>
    \A out \in {get_latest_crisis_update_result} :
        /\ out.counter = CRISIS_ID_COUNTER /\ out.storage = CRISIS_STORAGE
        /\ (out.kind = "Err" /\ out.err = "NotFound") <=> DOMAIN CRISIS_STORAGE = {}
        /\ DOMAIN CRISIS_STORAGE # {}
             => /\ out.kind = "Ok"
                /\ Len(out.value) = 1
                /\ out.value[1].id \in DOMAIN CRISIS_STORAGE
                /\ out.value[1] = from_bytes(CRISIS_STORAGE[out.value[1].id])
                /\ \A k \in DOMAIN CRISIS_STORAGE : k <= out.value[1].id

\* latest() returned a record after a record of a higher id, created later,
\* had been deleted
C15_Witness ==
    /\ result.op = "latest"
    /\ result.kind = "Ok"
    /\ \E k \in deleted : k > result.value[1].id

\* C16: a create whose payload meets the length minimums but whose record
\* encodes to more than MAX_SIZE bytes ends in a trap, and leaves the store,
\* the counter and its stable cell as they were: the id it had taken is
\* issued again by the next create.
C16_OversizeCreateHasNoEffect ==
    [][ result'.op = "create"
        => /\ \A c \in Principals, p \in Payloads :
                 ( /\ Len(p.title) >= 1
                   /\ Len(p.description) >= 10
                   /\ Len(p.location) >= 2
                   /\ EncodedLen([id |-> CRISIS_ID_COUNTER, title |-> p.title,
                                  author |-> c, description |-> p.description,
                                  location |-> p.location, timestamp |-> None,
                                  created_at |-> now]) > MAX_SIZE
                   /\ add_crisis_update(c, p) )
                 => result'.kind = "Trap"
           /\ result'.kind = "Trap"
                 => /\ UNCHANGED state
                    /\ \A c \in Principals, q \in ValidPayloads :
                          add_crisis_update_result(c, q)' = add_crisis_update_result(c, q)
      ]_vars

\* a create trapped on the size bound after an id had been issued
C16_Witness ==
    /\ result.op = "create"
    /\ result.kind = "Trap"
    /\ CRISIS_ID_COUNTER >= 1
    /\ DOMAIN CRISIS_STORAGE # {}

\* C17: the searches by title and by description always answer Ok, with
\* exactly the stored records whose title (description) contains the given
\* string, each once and in ascending order of id: the empty sequence when
\* none does, the store being empty or not.
C17_SubstringSearches ==
    result = Idle =>
    \A s \in Needles :
    \A field \in {"title", "description"} :
    \A out \in {IF field = "title" THEN get_crisis_updates_by_title_result(s)
                 ELSE get_crisis_updates_by_description_result(s)} :
        LET matching == { k \in DOMAIN CRISIS_STORAGE :
                            contains(from_bytes(CRISIS_STORAGE[k])[field], s) }
        IN /\ out.counter = CRISIS_ID_COUNTER /\ out.storage = CRISIS_STORAGE
           /\ out.kind = "Ok"
           /\ Len(out.value) = Cardinality(matching)
           /\ \A i \in 1..Len(out.value) :
                 /\ out.value[i].id \in matching
                 /\ out.value[i] = from_bytes(CRISIS_STORAGE[out.value[i].id])
           /\ \A i \in 1..Len(out.value), j \in 1..Len(out.value) :
                 i < j => out.value[i].id < out.value[j].id

\* a search by title returned some but not all of the stored records
C17_Witness ==
    /\ result.op = "by_title"
    /\ result.kind = "Ok"
    /\ Len(result.value) >= 1
    /\ Len(result.value) < Cardinality(DOMAIN CRISIS_STORAGE)

\* C18: every entry of the store holds, under key k, a record of id k, and
\* k is below the counter; and a create that succeeds adds exactly one key,
\* that of the record it returns, and leaves every entry that was there as
\* it was.
C18_StoreAllocatorConsistency ==
    /\ [](\A k \in DOMAIN CRISIS_STORAGE :
             /\ from_bytes(CRISIS_STORAGE[k]).id = k
             /\ k < CRISIS_ID_COUNTER)
    /\ [][ (result'.op = "create" /\ result'.kind = "Ok")
            => /\ result'.value[1].id \notin DOMAIN CRISIS_STORAGE
               /\ DOMAIN CRISIS_STORAGE' = DOMAIN CRISIS_STORAGE \cup {result'.value[1].id}
               /\ \A k \in DOMAIN CRISIS_STORAGE : CRISIS_STORAGE'[k] = CRISIS_STORAGE[k]
          ]_vars

\* a create succeeded on a store that already held a record
C18_Witness ==
    /\ result.op = "create"
    /\ result.kind = "Ok"
    /\ Cardinality(DOMAIN CRISIS_STORAGE) >= 2

\* C19: every record in the store has a title of at least 1, a description
\* of at least 10 and a location of at least 2 characters.
C19_StoredRecordsAreValid ==
    \A k \in DOMAIN CRISIS_STORAGE :
        /\ Len(from_bytes(CRISIS_STORAGE[k]).title) >= 1
        /\ Len(from_bytes(CRISIS_STORAGE[k]).description) >= 10
        /\ Len(from_bytes(CRISIS_STORAGE[k]).location) >= 2

\* the store holds a record written by an update and one written by a
\* create, with fields of exactly the minimum lengths in one of them
C19_Witness ==
    /\ \E k \in DOMAIN CRISIS_STORAGE :
          /\ Len(from_bytes(CRISIS_STORAGE[k]).title) = 1
          /\ Len(from_bytes(CRISIS_STORAGE[k]).description) = 10
          /\ Len(from_bytes(CRISIS_STORAGE[k]).location) = 2
    /\ \E k \in DOMAIN CRISIS_STORAGE : from_bytes(CRISIS_STORAGE[k]).timestamp # None
    /\ \E k \in DOMAIN CRISIS_STORAGE : from_bytes(CRISIS_STORAGE[k]).timestamp = None

\* C20: a read by id, list_all, latest, the search by location, the searches
\* by title and by description, the timestamp range, before and after
\* queries and the id range query leave the store, the counter and its
\* stable cell as they were, whatever they answer.
C20_QueriesHaveNoEffect ==
    [][ result'.op \in {"get", "list_all", "latest", "search_by_location",
                        "by_title", "by_description", "in_range", "before",
                        "after", "by_id_range"}
        => /\ CRISIS_STORAGE' = CRISIS_STORAGE
           /\ CRISIS_ID_COUNTER' = CRISIS_ID_COUNTER
           /\ memory0' = memory0
      ]_vars

\* latest() returned a record of a store that holds an earlier one as well
C20_Witness ==
    /\ result.op = "latest"
    /\ result.kind = "Ok"
    /\ Cardinality(DOMAIN CRISIS_STORAGE) >= 2

====
